---- MODULE Spec2Model ----
(***************************************************************************)
(* Model of the SDL2 window adapter of orbclient (src/src/sdl2/window.rs): *)
(* the cached geometry and sync_path, the drawing primitives lines, char   *)
(* and image, the input translation convert_scancode / convert_event, and  *)
(* the event batching of events() with its EventIter.                      *)
(***************************************************************************)
EXTENDS Integers, Sequences, FiniteSets, TLC

VARIABLES
    win,        \* the Window's cached fields x, y, w, h, t and its async flag
    native,     \* the native window behind self.inner: position, size, title
    pump,       \* the native event queue behind self.event_pump (FIFO)
    mouse,      \* the native mouse state read by ctx.mouse().mouse_state()
    mods,       \* the native modifier state read by ctx.keyboard().mod_state()
    pc,         \* "idle", "waiting" (inside wait_event) or "iter" (events() returned)
    iter,       \* the EventIter being built or last returned
    ret,        \* what the last EventIter::next returned
    waitCalls,  \* wait_event calls made by the current / most recent events() call
    waited,     \* the translation of the event that wait_event handed to that call
    left,       \* native events still queued when the most recent events() call returned
    calls,      \* events() calls made so far
    produced,   \* every native event the native source has queued so far, in order
    taken,      \* every native event events() took from the source so far, in order
    converted,  \* the translations of the taken events, concatenated in order
    yielded,    \* every Event the returned iterators yielded so far, in order
    abandoned,  \* TRUE once events() was called while the previous iterator had entries left
    inner,      \* the renderer's blend mode and draw colour
    font,       \* the built-in bitmap font table FONT
    draws,      \* the native draw calls issued by the most recent drawing operation
    call        \* the most recent operation applied to the window and its arguments

evVars == <<pump, mouse, mods, pc, iter, ret, waitCalls, waited, left, calls,
            produced, taken, converted, yielded, abandoned>>
geomVars == <<win, native>>
drawVars == <<inner, draws, font>>
vars == <<win, native, pump, mouse, mods, pc, iter, ret, waitCalls, waited, left,
          calls, produced, taken, converted, yielded, abandoned, inner, font, draws,
          call>>

---------------------------------------------------------------------------
(* Bounds of the model *)

MaxProduced == 3
MaxCalls == 2
MaxBurst == 129
MaxPoints == 3
MaxData == 5
MaxDim == 2
MaxChar == 3

(* Program constants *)

EventsLen == 128
GlyphRows == 16
GlyphCols == 8

---------------------------------------------------------------------------
(* Events (super::event) *)

None == [tag |-> "None"]
Some(v) == [tag |-> "Some", v |-> v]

EventNew == [tag |-> "None"]
MouseEvent(x, y, l, m, r) ==
    [tag |-> "Mouse", x |-> x, y |-> y, left_button |-> l, middle_button |-> m,
     right_button |-> r]
KeyEvent(c, k, p) == [tag |-> "Key", character |-> c, scancode |-> k, pressed |-> p]
QuitEvent == [tag |-> "Quit"]

---------------------------------------------------------------------------
(* Input translation *)

\* scancode |-> <<character with shift, character without shift, logical code>>,
\* row by row as the match arms of convert_scancode give them
ScancodeTable ==
       "A" :> <<"A", "a", "K_A">> @@
       "B" :> <<"B", "b", "K_B">> @@
       "C" :> <<"C", "c", "K_C">> @@
       "D" :> <<"D", "d", "K_D">> @@
       "E" :> <<"E", "e", "K_E">> @@
       "F" :> <<"F", "f", "K_F">> @@
       "G" :> <<"G", "g", "K_G">> @@
       "H" :> <<"H", "h", "K_H">> @@
       "I" :> <<"I", "i", "K_I">> @@
       "J" :> <<"J", "j", "K_J">> @@
       "K" :> <<"K", "k", "K_K">> @@
       "L" :> <<"L", "l", "K_L">> @@
       "M" :> <<"M", "m", "K_M">> @@
       "N" :> <<"N", "n", "K_N">> @@
       "O" :> <<"O", "o", "K_O">> @@
       "P" :> <<"P", "p", "K_P">> @@
       "Q" :> <<"Q", "q", "K_Q">> @@
       "R" :> <<"R", "r", "K_R">> @@
       "S" :> <<"S", "s", "K_S">> @@
       "T" :> <<"T", "t", "K_T">> @@
       "U" :> <<"U", "u", "K_U">> @@
       "V" :> <<"V", "v", "K_V">> @@
       "W" :> <<"W", "w", "K_W">> @@
       "X" :> <<"X", "x", "K_X">> @@
       "Y" :> <<"Y", "y", "K_Y">> @@
       "Z" :> <<"Z", "z", "K_Z">> @@
       "Num0" :> <<"0", ")", "K_0">> @@
       "Num1" :> <<"1", "!", "K_1">> @@
       "Num2" :> <<"2", "@", "K_2">> @@
       "Num3" :> <<"3", "#", "K_3">> @@
       "Num4" :> <<"4", "$", "K_4">> @@
       "Num5" :> <<"5", "%", "K_5">> @@
       "Num6" :> <<"6", "^", "K_6">> @@
       "Num7" :> <<"7", "&", "K_7">> @@
       "Num8" :> <<"8", "*", "K_8">> @@
       "Num9" :> <<"9", "(", "K_9">> @@
       "Grave" :> <<"`", "~", "K_TICK">> @@
       "Minus" :> <<"-", "_", "K_MINUS">> @@
       "Equals" :> <<"=", "+", "K_EQUALS">> @@
       "LeftBracket" :> <<"[", "{", "K_BRACE_OPEN">> @@
       "RightBracket" :> <<"]", "}", "K_BRACE_CLOSE">> @@
       "Backslash" :> <<"\\", "|", "K_BACKSLASH">> @@
       "Semicolon" :> <<";", ":", "K_SEMICOLON">> @@
       "Apostrophe" :> <<"'", "\"", "K_QUOTE">> @@
       "Comma" :> <<",", "<", "K_COMMA">> @@
       "Period" :> <<".", ">", "K_PERIOD">> @@
       "Slash" :> <<"/", "?", "K_SLASH">> @@
       "Space" :> <<" ", " ", "K_SPACE">> @@
       "Backspace" :> <<"NUL", "NUL", "K_BKSP">> @@
       "Tab" :> <<"TAB", "TAB", "K_TAB">> @@
       "LCtrl" :> <<"NUL", "NUL", "K_CTRL">> @@
       "RCtrl" :> <<"NUL", "NUL", "K_CTRL">> @@
       "LAlt" :> <<"NUL", "NUL", "K_ALT">> @@
       "RAlt" :> <<"NUL", "NUL", "K_ALT">> @@
       "Return" :> <<"LF", "LF", "K_ENTER">> @@
       "Escape" :> <<"ESC", "ESC", "K_ESC">> @@
       "F1" :> <<"NUL", "NUL", "K_F1">> @@
       "F2" :> <<"NUL", "NUL", "K_F2">> @@
       "F3" :> <<"NUL", "NUL", "K_F3">> @@
       "F4" :> <<"NUL", "NUL", "K_F4">> @@
       "F5" :> <<"NUL", "NUL", "K_F5">> @@
       "F6" :> <<"NUL", "NUL", "K_F6">> @@
       "F7" :> <<"NUL", "NUL", "K_F7">> @@
       "F8" :> <<"NUL", "NUL", "K_F8">> @@
       "F9" :> <<"NUL", "NUL", "K_F9">> @@
       "F10" :> <<"NUL", "NUL", "K_F10">> @@
       "Home" :> <<"NUL", "NUL", "K_HOME">> @@
       "Up" :> <<"NUL", "NUL", "K_UP">> @@
       "PageUp" :> <<"NUL", "NUL", "K_PGUP">> @@
       "Left" :> <<"NUL", "NUL", "K_LEFT">> @@
       "Right" :> <<"NUL", "NUL", "K_RIGHT">> @@
       "End" :> <<"NUL", "NUL", "K_END">> @@
       "Down" :> <<"NUL", "NUL", "K_DOWN">> @@
       "PageDown" :> <<"NUL", "NUL", "K_PGDN">> @@
       "Delete" :> <<"NUL", "NUL", "K_DEL">> @@
       "F11" :> <<"NUL", "NUL", "K_F11">> @@
       "F12" :> <<"NUL", "NUL", "K_F12">> @@
       "LShift" :> <<"NUL", "NUL", "K_LEFT_SHIFT">> @@
       "RShift" :> <<"NUL", "NUL", "K_RIGHT_SHIFT">>

Recognized == DOMAIN ScancodeTable

ConvertScancode(scancode_option, shift) ==
    IF scancode_option.tag = "Some"
    THEN IF scancode_option.v \in Recognized
         THEN Some(<<IF shift THEN ScancodeTable[scancode_option.v][1]
                              ELSE ScancodeTable[scancode_option.v][2],
                     ScancodeTable[scancode_option.v][3]>>)
         ELSE None
    ELSE None

MouseSnapshot(ms) ==
    MouseEvent(ms.x, ms.y, ms.left, ms.middle, ms.right)

ShiftStateNoCaps(md) == "LSHIFTMOD" \in md \/ "RSHIFTMOD" \in md

\* shift is true when the caps-lock, left-shift or right-shift modifier is active
ShiftState(md) == "CAPSMOD" \in md \/ "LSHIFTMOD" \in md \/ "RSHIFTMOD" \in md

ConvertEvent(event, ms, md) ==
    LET shift == ShiftState(md)
        code == ConvertScancode(event.scancode, shift)
    IN CASE event.kind = "MouseMotion" -> <<MouseSnapshot(ms)>>
         [] event.kind = "MouseButtonDown" -> <<MouseSnapshot(ms)>>
         [] event.kind = "MouseButtonUp" -> <<MouseSnapshot(ms)>>
         [] event.kind = "KeyDown" ->
                IF code.tag = "Some" THEN <<KeyEvent(code.v[1], code.v[2], TRUE)>>
                                     ELSE <<>>
         [] event.kind = "KeyUp" ->
                IF code.tag = "Some" THEN <<KeyEvent(code.v[1], code.v[2], FALSE)>>
                                     ELSE <<>>
         [] event.kind = "Quit" -> <<QuitEvent>>
         [] OTHER -> <<>>

---------------------------------------------------------------------------
(* Native events and native input state *)

NatMouse(kind, x, y) == [kind |-> kind, scancode |-> None, x |-> x, y |-> y]
NatKey(kind, sc) == [kind |-> kind, scancode |-> sc, x |-> 0, y |-> 0]
NatOther(kind) == [kind |-> kind, scancode |-> None, x |-> 0, y |-> 0]

\* the native events the event machine is driven with
NativeSample ==
    { NatMouse("MouseMotion", 7, 7), NatKey("KeyDown", Some("A")),
      NatOther("Quit"), NatOther("Window") }

MouseState(x, y, l, m, r) ==
    [x |-> x, y |-> y, left |-> l, middle |-> m, right |-> r]

MouseSample == { MouseState(0, 0, FALSE, FALSE, FALSE), MouseState(3, 4, TRUE, FALSE, TRUE) }
ModSample == { {}, {"CAPSMOD"} }

---------------------------------------------------------------------------
(* events() and EventIter *)

NewIter == [events |-> [k \in 0 .. EventsLen - 1 |-> EventNew], i |-> 0, count |-> 0]

\* the for loop over the converted events: store while there is room, else break
RECURSIVE AppendAll(_, _)
AppendAll(it, evs) ==
    IF evs = <<>> THEN it
    ELSE IF it.count < EventsLen
         THEN AppendAll([it EXCEPT !.events[it.count] = Head(evs), !.count = @ + 1],
                        Tail(evs))
         ELSE it

RECURSIVE StoreUnchecked(_, _)
StoreUnchecked(it, evs) ==
    IF evs = <<>> THEN it
    ELSE StoreUnchecked([events |-> [k \in DOMAIN it.events \cup {it.count} |->
                                        IF k = it.count THEN Head(evs) ELSE it.events[k]],
                         i |-> it.i, count |-> it.count + 1],
                        Tail(evs))

RECURSIVE DrainUnchecked(_, _, _, _, _)
DrainUnchecked(it, q, n, ms, md) ==
    IF q = <<>> THEN [it |-> it, q |-> q, n |-> n]
    ELSE DrainUnchecked(StoreUnchecked(it, ConvertEvent(Head(q), ms, md)),
                        Tail(q), n + 1, ms, md)

\* the while loop over poll_event: n counts the native events polled
RECURSIVE Drain(_, _, _, _, _)
Drain(it, q, n, ms, md) ==
    IF q = <<>> THEN [it |-> it, q |-> q, n |-> n]
    ELSE LET it2 == AppendAll(it, ConvertEvent(Head(q), ms, md))
         IN IF it2.count + 2 < EventsLen
            THEN [it |-> it2, q |-> Tail(q), n |-> n + 1]
            ELSE Drain(it2, Tail(q), n + 1, ms, md)

RECURSIVE Translations(_, _, _)
Translations(q, ms, md) ==
    IF q = <<>> THEN <<>>
    ELSE ConvertEvent(Head(q), ms, md) \o Translations(Tail(q), ms, md)

IsAsyncInverted(w) == ~ w.async

IsAsync(w) == w.async

\* events() up to its return (async) or up to the blocking wait_event (not async)
EventsCall ==
    /\ pc \in {"idle", "iter"}
    /\ calls < MaxCalls
    /\ calls' = calls + 1
    /\ abandoned' = (abandoned \/ (pc = "iter" /\ iter.i < iter.count))
    /\ ret' = None
    /\ IF ~ IsAsync(win)
       THEN /\ pc' = "waiting"
            /\ iter' = NewIter
            /\ waitCalls' = 1
            /\ waited' = <<>>
            /\ UNCHANGED <<pump, left, taken, converted>>
       ELSE LET d == Drain(NewIter, pump, 0, mouse, mods)
            IN /\ pc' = "iter"
               /\ iter' = d.it
               /\ pump' = d.q
               /\ left' = Len(d.q)
               /\ waitCalls' = 0
               /\ waited' = <<>>
               /\ taken' = taken \o SubSeq(pump, 1, d.n)
               /\ converted' = converted \o Translations(SubSeq(pump, 1, d.n), mouse, mods)
    /\ UNCHANGED <<mouse, mods, produced, yielded, geomVars, drawVars, call>>

\* wait_event returns the first queued event; the rest of events() follows
WaitEvent ==
    /\ pc = "waiting"
    /\ pump # <<>>
    /\ LET first == ConvertEvent(Head(pump), mouse, mods)
           d == Drain(AppendAll(iter, first), Tail(pump), 1, mouse, mods)
       IN /\ pc' = "iter"
          /\ iter' = d.it
          /\ pump' = d.q
          /\ left' = Len(d.q)
          /\ waited' = first
          /\ taken' = taken \o SubSeq(pump, 1, d.n)
          /\ converted' = converted \o Translations(SubSeq(pump, 1, d.n), mouse, mods)
    /\ UNCHANGED <<mouse, mods, ret, waitCalls, calls, produced, yielded, abandoned,
                   geomVars, drawVars, call>>

IterNextSkipping(it) ==
    IF it.i < it.count
    THEN IF it.i + 1 \in DOMAIN it.events
         THEN [it |-> [it EXCEPT !.i = @ + 1], ret |-> Some(it.events[it.i + 1])]
         ELSE [it |-> it, ret |-> None]
    ELSE [it |-> it, ret |-> None]

\* EventIter::next
IterNext(it) ==
    IF it.i < it.count
    THEN IF it.i \in DOMAIN it.events
         THEN [it |-> [it EXCEPT !.i = @ + 1], ret |-> Some(it.events[it.i])]
         ELSE [it |-> it, ret |-> None]
    ELSE [it |-> it, ret |-> None]

\* the caller pulls the next entry of the returned iterator
EventIterNext ==
    /\ pc = "iter"
    /\ ret' = IterNext(iter).ret
    /\ iter' = IterNext(iter).it
    /\ yielded' = IF IterNext(iter).ret.tag = "Some"
                  THEN Append(yielded, IterNext(iter).ret.v) ELSE yielded
    /\ UNCHANGED <<pump, mouse, mods, pc, waitCalls, waited, left, calls, produced,
                   taken, converted, abandoned, geomVars, drawVars, call>>

\* the native source queues one more event
Produce ==
    /\ Len(produced) < MaxProduced
    /\ \E e \in NativeSample :
          /\ pump' = Append(pump, e)
          /\ produced' = Append(produced, e)
    /\ UNCHANGED <<mouse, mods, pc, iter, ret, waitCalls, waited, left, calls, taken,
                   converted, yielded, abandoned, geomVars, drawVars, call>>

\* the native mouse or modifier state changes
InputChange ==
    /\ \E ms \in MouseSample, md \in ModSample :
          /\ <<ms, md>> # <<mouse, mods>>
          /\ mouse' = ms
          /\ mods' = md
    /\ UNCHANGED <<pump, pc, iter, ret, waitCalls, waited, left, calls, produced, taken,
                   converted, yielded, abandoned, geomVars, drawVars, call>>

---------------------------------------------------------------------------
(* Window::new_flags: the state after construction *)

NewWindow(x, y, w, h, title, async) ==
    [x |-> x, y |-> y, w |-> w, h |-> h, t |-> title, async |-> async]

\* the font table: one 16-byte block of row bitmasks per character code
FontTable(len, seed) == [k \in 0 .. len - 1 |-> (seed + 37 * k) % 256]

FontSample == { FontTable(len, seed) : len \in {0, 16, 24, 40}, seed \in {129, 255} }

InitWindowRest ==
    /\ native = [present |-> TRUE, position |-> <<0, 0>>, size |-> <<1, 1>>, title |-> "a"]
    /\ inner = [blend |-> "None", color |-> <<0, 0, 0, 0>>]
    /\ font = FontTable(16, 255)
    /\ draws = <<>>
    /\ call = [op |-> "new"]

InitIter ==
    /\ pc = "idle"
    /\ iter = NewIter
    /\ ret = None
    /\ waitCalls = 0
    /\ waited = <<>>
    /\ left = 0
    /\ calls = 0
    /\ taken = <<>>
    /\ converted = <<>>
    /\ yielded = <<>>
    /\ abandoned = FALSE

InitEvents ==
    /\ InitIter
    /\ mouse \in MouseSample
    /\ mods \in ModSample

Init ==
    /\ \E a \in BOOLEAN : win = NewWindow(0, 0, 1, 1, "a", a)
    /\ pump = <<>>
    /\ produced = <<>>
    /\ InitEvents
    /\ InitWindowRest

Next == EventsCall \/ WaitEvent \/ EventIterNext \/ Produce \/ InputChange

Spec == Init /\ [][Next]_vars

\* a burst of equal native events is queued before the first events() call
BurstSample == { NatOther("Quit"), NatMouse("MouseButtonDown", 7, 7), NatOther("Window") }

InitBurst ==
    /\ \E a \in BOOLEAN : win = NewWindow(0, 0, 1, 1, "a", a)
    /\ \E n \in 0 .. MaxBurst, e \in BurstSample : pump = [k \in 1 .. n |-> e]
    /\ produced = pump
    /\ InitEvents
    /\ InitWindowRest

NextBurst == EventsCall \/ WaitEvent \/ EventIterNext

SpecBurst == InitBurst /\ [][NextBurst]_vars

---------------------------------------------------------------------------
(* Properties of events() and EventIter *)

IsPrefix(s, t) == Len(s) <= Len(t) /\ SubSeq(t, 1, Len(s)) = s

\* the entries of the iterator not yet yielded, in order
Remaining(it) == [k \in 1 .. (it.count - it.i) |-> it.events[it.i + k - 1]]

\* C1: when events() returns, either no native event remains queued or the batch
\* holds at least 126 entries (it is within 2 slots of its 128-entry capacity)
C1_DrainsUntilEmptyOrNearFull ==
    pc = "iter" => (left = 0 \/ iter.count + 2 >= EventsLen)

\* C2 (state part): events() is inside wait_event only when the async flag is
\* false, has called wait_event exactly once per call then and never when the
\* flag is true, and the waited event's translation heads the batch
C2_WaitState ==
    /\ pc = "waiting" => ~ win.async
    /\ calls > 0 => waitCalls = (IF win.async THEN 0 ELSE 1)
    /\ pc = "iter" =>
          /\ Len(waited) <= iter.count
          /\ \A k \in 1 .. Len(waited) : iter.events[k - 1] = waited[k]
          /\ win.async => waited = <<>>

\* C2 (step part): in asynchronous mode a call with an empty native queue
\* returns in the same step with a batch of zero events
C2_AsyncEmptyStep ==
    (calls' = calls + 1 /\ win.async /\ pump = <<>>)
        => (pc' = "iter" /\ iter'.count = 0 /\ iter'.i = 0 /\ pump' = <<>>)

\* C2: one blocking wait per call exactly when not async, its translation first
\* in the batch; never a wait when async, and an empty batch at once when the
\* native queue is empty
C2_BlockingWaitOnlyWhenSync == [] C2_WaitState /\ [][C2_AsyncEmptyStep]_vars

C2_Witness ==
    /\ pc = "iter"
    /\ ~ win.async
    /\ waitCalls = 1
    /\ Len(waited) = 1
    /\ iter.count = 2
    /\ iter.events[0] = waited[1]

\* C3: the batch of one events() call never holds more than 128 entries, and
\* the 128-entry buffer is neither written past its end nor grown
C3_BatchWithinCapacity ==
    /\ iter.count <= EventsLen
    /\ iter.i <= iter.count
    /\ DOMAIN iter.events = 0 .. EventsLen - 1

\* events() has returned from a call that found more than 126 translatable
\* native events queued
C3_Witness ==
    /\ pc = "iter"
    /\ iter.count >= 1
    /\ Len(pump) >= EventsLen - 2
    /\ \A k \in 1 .. Len(produced) : produced[k].kind = "Quit"

\* C10: while every iterator is iterated to exhaustion before the next call,
\* the Events yielded so far followed by the entries the current iterator still
\* holds are exactly the translations of the native events taken, in the order
\* taken; and the native events queued so far are the taken ones followed by
\* the ones still queued
C10_YieldedAreTheTranslations ==
    /\ produced = taken \o pump
    /\ ~ abandoned =>
          /\ IsPrefix(yielded, converted)
          /\ pc = "iter" => yielded \o Remaining(iter) = converted
          /\ pc # "iter" => yielded = converted
          /\ (pc = "iter" /\ iter.i >= iter.count /\ ret.tag = "Some") =>
                 ret.v = converted[Len(converted)]

C10_Witness ==
    /\ ~ abandoned
    /\ calls = 2
    /\ pc = "iter"
    /\ iter.i = iter.count
    /\ ret = None
    /\ Len(yielded) >= 2
    /\ yielded = converted
    /\ pump # <<>>

---------------------------------------------------------------------------
(* The input translation applied to single inputs *)

Unrecognized == {"CapsLock", "Kp1", "Application"}
ScancodeOptions == {None} \cup { Some(sc) : sc \in Recognized \cup Unrecognized }

KeySample == { None, Some("A"), Some("Num1"), Some("F1"), Some("LShift"), Some("CapsLock") }
NativeAll ==
    { NatMouse(k, 7, 7) : k \in {"MouseMotion", "MouseButtonDown", "MouseButtonUp"} }
    \cup { NatKey(k, sc) : k \in {"KeyDown", "KeyUp"}, sc \in KeySample }
    \cup { NatOther(k) : k \in {"Quit", "Window", "TextInput", "MouseWheel"} }

MouseAll == { MouseState(0, 0, TRUE, FALSE, FALSE), MouseState(3, 4, FALSE, TRUE, TRUE) }
ModAll == SUBSET {"CAPSMOD", "LSHIFTMOD", "RSHIFTMOD"}

ApplyConvertScancode ==
    /\ \E sc \in ScancodeOptions, shift \in BOOLEAN :
          call' = [op |-> "convert_scancode", scancode |-> sc, shift |-> shift,
                   ret |-> ConvertScancode(sc, shift)]
    /\ UNCHANGED <<evVars, geomVars, drawVars>>

ApplyConvertEvent ==
    /\ \E e \in NativeAll :
          call' = [op |-> "convert_event", event |-> e, mouse |-> mouse, mods |-> mods,
                   ret |-> ConvertEvent(e, mouse, mods)]
    /\ UNCHANGED <<evVars, geomVars, drawVars>>

InputChangeAll ==
    /\ \E ms \in MouseAll, md \in ModAll :
          /\ <<ms, md>> # <<mouse, mods>>
          /\ mouse' = ms
          /\ mods' = md
    /\ UNCHANGED <<pump, pc, iter, ret, waitCalls, waited, left, calls, produced, taken,
                   converted, yielded, abandoned, geomVars, drawVars, call>>

InitInput ==
    /\ win = NewWindow(0, 0, 1, 1, "a", FALSE)
    /\ pump = <<>>
    /\ produced = <<>>
    /\ InitIter
    /\ mouse \in MouseAll
    /\ mods \in ModAll
    /\ InitWindowRest

NextInput == ApplyConvertScancode \/ ApplyConvertEvent \/ InputChangeAll

SpecInput == InitInput /\ [][NextInput]_vars

\* the glyphs of the letter, digit and punctuation keys: <<unshifted, shifted>>
KeyGlyphs ==
    "A" :> <<"a", "A">> @@ "B" :> <<"b", "B">> @@ "C" :> <<"c", "C">> @@
    "D" :> <<"d", "D">> @@ "E" :> <<"e", "E">> @@ "F" :> <<"f", "F">> @@
    "G" :> <<"g", "G">> @@ "H" :> <<"h", "H">> @@ "I" :> <<"i", "I">> @@
    "J" :> <<"j", "J">> @@ "K" :> <<"k", "K">> @@ "L" :> <<"l", "L">> @@
    "M" :> <<"m", "M">> @@ "N" :> <<"n", "N">> @@ "O" :> <<"o", "O">> @@
    "P" :> <<"p", "P">> @@ "Q" :> <<"q", "Q">> @@ "R" :> <<"r", "R">> @@
    "S" :> <<"s", "S">> @@ "T" :> <<"t", "T">> @@ "U" :> <<"u", "U">> @@
    "V" :> <<"v", "V">> @@ "W" :> <<"w", "W">> @@ "X" :> <<"x", "X">> @@
    "Y" :> <<"y", "Y">> @@ "Z" :> <<"z", "Z">> @@ "Num1" :> <<"1", "!">> @@
    "Num2" :> <<"2", "@">> @@ "Num3" :> <<"3", "#">> @@ "Num4" :> <<"4", "$">> @@
    "Num5" :> <<"5", "%">> @@ "Num6" :> <<"6", "^">> @@ "Num7" :> <<"7", "&">> @@
    "Num8" :> <<"8", "*">> @@ "Num9" :> <<"9", "(">> @@ "Num0" :> <<"0", ")">> @@
    "Grave" :> <<"`", "~">> @@ "Minus" :> <<"-", "_">> @@ "Equals" :> <<"=", "+">> @@
    "LeftBracket" :> <<"[", "{">> @@ "RightBracket" :> <<"]", "}">> @@
    "Backslash" :> <<"\\", "|">> @@ "Semicolon" :> <<";", ":">> @@
    "Apostrophe" :> <<"'", "\"">> @@ "Comma" :> <<",", "<">> @@ "Period" :> <<".", ">">> @@
    "Slash" :> <<"/", "?">>

ControlKeys ==
    {"Up", "Down", "Left", "Right", "F1", "F2", "F3", "F4", "F5", "F6", "F7", "F8", "F9",
     "F10", "F11", "F12", "LCtrl", "RCtrl", "LAlt", "RAlt", "LShift", "RShift", "Home",
     "End", "PageUp", "PageDown", "Delete"}

\* C4: convert_scancode gives the shifted glyph of a letter, digit or punctuation
\* key when shift is active and its unshifted glyph when it is not; arrow,
\* function, modifier and navigation keys give the null character with a
\* logical code for both shift values
C4_ShiftSelectsGlyph ==
    (call.op = "convert_scancode" /\ call.scancode.tag = "Some") =>
        /\ call.scancode.v \in DOMAIN KeyGlyphs =>
              /\ call.ret.tag = "Some"
              /\ call.ret.v[1] = KeyGlyphs[call.scancode.v][IF call.shift THEN 2 ELSE 1]
        /\ call.scancode.v \in ControlKeys =>
              /\ call.ret.tag = "Some"
              /\ call.ret.v[1] = "NUL"

\* C6: convert_event gives at most one Event: the mouse state read at conversion
\* time for motion, button-down and button-up; a Key event with pressed = TRUE
\* (key-down) or FALSE (key-up) for a recognized scancode under shift = caps-lock
\* or left-shift or right-shift read at conversion time, and none otherwise; one
\* Quit for a quit request; nothing for any other kind
C6_ConvertEventShape ==
    call.op = "convert_event" =>
        LET e == call.event
            out == call.ret
            shift == \E m \in {"CAPSMOD", "LSHIFTMOD", "RSHIFTMOD"} : m \in call.mods
            code == ConvertScancode(e.scancode, shift)
        IN /\ Len(out) <= 1
           /\ e.kind \in {"MouseMotion", "MouseButtonDown", "MouseButtonUp"} =>
                 out = << [tag |-> "Mouse", x |-> call.mouse.x, y |-> call.mouse.y,
                           left_button |-> call.mouse.left,
                           middle_button |-> call.mouse.middle,
                           right_button |-> call.mouse.right] >>
           /\ e.kind \in {"KeyDown", "KeyUp"} =>
                 IF e.scancode.tag = "Some" /\ e.scancode.v \in Recognized
                 THEN out = << [tag |-> "Key", character |-> code.v[1],
                                scancode |-> code.v[2],
                                pressed |-> (e.kind = "KeyDown")] >>
                 ELSE out = <<>>
           /\ e.kind = "Quit" => out = << [tag |-> "Quit"] >>
           /\ e.kind \notin {"MouseMotion", "MouseButtonDown", "MouseButtonUp", "KeyDown",
                             "KeyUp", "Quit"} => out = <<>>

\* a key-up of a recognized key converted while only caps-lock is active
C6_Witness ==
    /\ call.op = "convert_event"
    /\ call.event = NatKey("KeyUp", Some("A"))
    /\ call.mods = {"CAPSMOD"}
    /\ call.ret = << KeyEvent("A", "K_A", FALSE) >>

---------------------------------------------------------------------------
(* Drawing primitives: each takes and returns the renderer state            *)
(* [inner, draws], draws being the native draw calls issued so far          *)

\* `v as i32` of a u32: values above i32::MAX wrap around by 2^32
AsI32(v) == IF v > 2147483647 THEN v - 2147483647 - 2147483647 - 2 ELSE v

\* the RGBA bytes handed to set_draw_color
Rgba(color) ==
    << (color \div 65536) % 256, (color \div 256) % 256, color % 256,
       (color \div 16777216) % 256 >>

DrawPoint(st, x, y) ==
    [st EXCEPT !.draws = Append(@, [op |-> "point", x |-> x, y |-> y,
                                    color |-> st.inner.color, blend |-> st.inner.blend])]

DrawLine(st, x1, y1, x2, y2) ==
    [st EXCEPT !.draws = Append(@, [op |-> "line", x1 |-> x1, y1 |-> y1, x2 |-> x2,
                                    y2 |-> y2, color |-> st.inner.color,
                                    blend |-> st.inner.blend])]

SetBlendColor(st, color) ==
    [st EXCEPT !.inner = [blend |-> "Blend", color |-> Rgba(color)]]

Pixel(st, x, y, color) == DrawPoint(SetBlendColor(st, color), x, y)

Line(st, argx1, argy1, argx2, argy2, color) ==
    DrawLine(SetBlendColor(st, color), argx1, argy1, argx2, argy2)

\* for i in 0..points.len() - 1, with the 0-based points[i] at points[i + 1] here
RECURSIVE LinesFrom(_, _, _, _)
LinesFrom(st, points, i, color) ==
    IF i >= Len(points) - 1 THEN st
    ELSE LinesFrom(Line(st, points[i + 1][1], points[i + 1][2],
                        points[i + 2][1], points[i + 2][2], color),
                   points, i + 1, color)

LinesClosed(st, points, color) ==
    IF Len(points) = 0 THEN st
    ELSE IF Len(points) = 1 THEN Pixel(st, points[1][1], points[1][2], color)
    ELSE Line(LinesFrom(st, points, 0, color), points[Len(points)][1],
              points[Len(points)][2], points[1][1], points[1][2], color)

Lines(st, points, color) ==
    IF Len(points) = 0 THEN st
    ELSE IF Len(points) = 1 THEN Pixel(st, points[1][1], points[1][2], color)
    ELSE LinesFrom(st, points, 0, color)

RowBitUnreversed(row_data, col) == (row_data \div (2 ^ col)) % 2

\* (row_data >> (7 - col)) & 1
RowBit(row_data, col) == (row_data \div (2 ^ (7 - col))) % 2

\* for col in 0..8: the points draw_point is called with for one row, in order
RECURSIVE CharCols(_, _, _, _, _)
CharCols(x, y, row, row_data, col) ==
    IF col >= GlyphCols THEN <<>>
    ELSE (IF RowBit(row_data, col) > 0 THEN << <<x + col, y + row>> >> ELSE <<>>)
         \o CharCols(x, y, row, row_data, col + 1)

\* for row in 0..16: the points draw_point is called with, in order
RECURSIVE CharRows(_, _, _, _, _)
CharRows(x, y, fnt, offset, row) ==
    IF row >= GlyphRows THEN <<>>
    ELSE LET row_data == IF offset < Cardinality(DOMAIN fnt) THEN fnt[offset] ELSE 0
         IN CharCols(x, y, row, row_data, 0) \o CharRows(x, y, fnt, offset + 1, row + 1)

Char(st, x, y, c, color, fnt) ==
    LET st2 == SetBlendColor(st, color)
        pts == CharRows(x, y, fnt, c * 16, 0)
    IN [st2 EXCEPT !.draws = @ \o [k \in 1 .. Len(pts) |->
                                      [op |-> "point", x |-> pts[k][1], y |-> pts[k][2],
                                       color |-> st2.inner.color,
                                       blend |-> st2.inner.blend]]]

\* for x in start_x..x_end: acc is [st, i]
RECURSIVE ImageRow(_, _, _, _, _)
ImageRow(acc, x, x_end, y, data) ==
    IF x >= x_end THEN acc
    ELSE ImageRow([st |-> IF acc.i < Len(data)
                          THEN Pixel(acc.st, x, y, data[acc.i + 1]) ELSE acc.st,
                   i |-> acc.i + 1],
                  x + 1, x_end, y, data)

\* for y in start_y..y_end
RECURSIVE ImageRows(_, _, _, _, _, _)
ImageRows(acc, start_x, x_end, y, y_end, data) ==
    IF y >= y_end THEN acc
    ELSE ImageRows(ImageRow(acc, start_x, x_end, y, data), start_x, x_end, y + 1, y_end,
                   data)

ImageCountingDrawn(st, start_x, start_y, w, h, data) ==
    ImageRows([st |-> st, i |-> 1], start_x, start_x + AsI32(w), start_y,
              start_y + AsI32(h), data).st

Image(st, start_x, start_y, w, h, data) ==
    ImageRows([st |-> st, i |-> 0], start_x, start_x + AsI32(w), start_y,
              start_y + AsI32(h), data).st

---------------------------------------------------------------------------
(* One drawing operation applied to a window whose renderer is in a state    *)
(* that earlier drawing can have left (set leaves blend mode None, every     *)
(* other primitive leaves Blend)                                             *)

\* packed ARGB values 0x7F000000 and 0x40123456
ColorSample == {2130706432, 1074934870}
CoordSample == {-1, 5}
PointSample == { <<0, 0>>, <<3, -2>> }

SeqsUpTo(S, n) == UNION { [1 .. k -> S] : k \in 0 .. n }

\* pixel buffers of every length up to MaxData, element k being the packed
\* colour with all four bytes equal to k
DataSample == { [k \in 1 .. n |-> 16843009 * k] : n \in 0 .. MaxData }

Fresh == [inner |-> inner, draws |-> <<>>]

ApplyLines ==
    /\ call.op = "new"
    /\ \E points \in SeqsUpTo(PointSample, MaxPoints), color \in ColorSample :
          /\ inner' = Lines(Fresh, points, color).inner
          /\ draws' = Lines(Fresh, points, color).draws
          /\ call' = [op |-> "lines", points |-> points, color |-> color]
    /\ UNCHANGED <<evVars, geomVars, font>>

ApplyChar ==
    /\ call.op = "new"
    /\ \E x \in CoordSample, y \in CoordSample, c \in 0 .. MaxChar, color \in ColorSample :
          /\ inner' = Char(Fresh, x, y, c, color, font).inner
          /\ draws' = Char(Fresh, x, y, c, color, font).draws
          /\ call' = [op |-> "char", x |-> x, y |-> y, c |-> c, color |-> color]
    /\ UNCHANGED <<evVars, geomVars, font>>

ApplyImage ==
    /\ call.op = "new"
    /\ \E x \in CoordSample, y \in CoordSample, w \in 0 .. MaxDim, h \in 0 .. MaxDim,
          data \in DataSample :
          /\ inner' = Image(Fresh, x, y, w, h, data).inner
          /\ draws' = Image(Fresh, x, y, w, h, data).draws
          /\ call' = [op |-> "image", x |-> x, y |-> y, w |-> w, h |-> h, data |-> data]
    /\ UNCHANGED <<evVars, geomVars, font>>

InitDraw ==
    /\ win = NewWindow(0, 0, 1, 1, "a", FALSE)
    /\ native = [present |-> TRUE, position |-> <<0, 0>>, size |-> <<1, 1>>, title |-> "a"]
    /\ pump = <<>>
    /\ produced = <<>>
    /\ InitIter
    /\ mouse = MouseState(0, 0, FALSE, FALSE, FALSE)
    /\ mods = {}
    /\ inner \in { [blend |-> "None", color |-> <<0, 0, 0, 0>>],
                  [blend |-> "Blend", color |-> <<18, 52, 86, 64>>] }
    /\ font \in FontSample
    /\ draws = <<>>
    /\ call = [op |-> "new"]

NextDraw == ApplyLines \/ ApplyChar \/ ApplyImage

SpecDraw == InitDraw /\ [][NextDraw]_vars

PointDraw(x, y, color) ==
    [op |-> "point", x |-> x, y |-> y, color |-> Rgba(color), blend |-> "Blend"]

Min(a, b) == IF a <= b THEN a ELSE b

\* C7: image draws the first min(data.length, w*h) elements of data, element k
\* (from 0) as one point at (x + k mod w, y + k div w), in increasing k
C7_ImageDrawsPrefixRowMajor ==
    call.op = "image" =>
        LET n == Min(Len(call.data), call.w * call.h)
        IN /\ Len(draws) = n
           /\ \A k \in 0 .. n - 1 :
                 draws[k + 1] = PointDraw(call.x + (k % call.w), call.y + (k \div call.w),
                                          call.data[k + 1])

\* image was given fewer elements than w*h, and more than one row's worth
C7_Witness ==
    /\ call.op = "image"
    /\ call.w = 2
    /\ call.h = 2
    /\ Len(call.data) = 3
    /\ Len(draws) = 3
    /\ draws[3].x = call.x /\ draws[3].y = call.y + 1

\* the row byte char reads for table index k: zero at or past the table's end
FontRow(k) == IF k \in DOMAIN font THEN font[k] ELSE 0

\* the points char must draw, row by row, each row from column 0 to column 7
GlyphPoints(x, y, c) ==
    { <<x + q[2], y + q[1]>> :
        q \in { p \in (0 .. GlyphRows - 1) \X (0 .. GlyphCols - 1) :
                  (FontRow(c * GlyphRows + p[1]) \div (2 ^ (GlyphCols - 1 - p[2]))) % 2 = 1 } }

\* C8: char draws exactly the points (x+col, y+row) whose font row byte at
\* c*16+row has the bit of column col set (column 0 the most significant bit),
\* each once and in row-major order, rows at or past the table's end counting
\* as zero; a code whose block lies beyond the table draws nothing
C8_CharDrawsSetBits ==
    call.op = "char" =>
        /\ \A k \in 1 .. Len(draws) :
              /\ draws[k].op = "point"
              /\ draws[k].color = Rgba(call.color)
        /\ { <<draws[k].x, draws[k].y>> : k \in 1 .. Len(draws) }
              = GlyphPoints(call.x, call.y, call.c)
        /\ \A j, k \in 1 .. Len(draws) :
              j < k => \/ draws[j].y < draws[k].y
                       \/ (draws[j].y = draws[k].y /\ draws[j].x < draws[k].x)
        /\ call.c * GlyphRows >= Cardinality(DOMAIN font) => draws = <<>>

\* char drew a glyph whose 16-byte block is cut by the end of the font table
C8_Witness ==
    /\ call.op = "char"
    /\ call.c * GlyphRows < Cardinality(DOMAIN font)
    /\ call.c * GlyphRows + GlyphRows > Cardinality(DOMAIN font)
    /\ draws # <<>>
    /\ \A k \in 1 .. Len(draws) : draws[k].y - call.y < Cardinality(DOMAIN font) - call.c * GlyphRows

\* a code whose block lies wholly beyond the font table was drawn
C8_BeyondTableReached ==
    /\ call.op = "char"
    /\ Cardinality(DOMAIN font) > 0
    /\ call.c * GlyphRows >= Cardinality(DOMAIN font)
    /\ draws = <<>>

\* C9: lines issues no draw for no point, one point draw for one point, and for
\* n >= 2 points the n-1 segments (points[i], points[i+1]) in increasing i
C9_LinesDrawsSegments ==
    call.op = "lines" =>
        LET n == Len(call.points)
        IN /\ n = 0 => draws = <<>>
           /\ n = 1 => draws = << PointDraw(call.points[1][1], call.points[1][2],
                                            call.color) >>
           /\ n >= 2 =>
                 /\ Len(draws) = n - 1
                 /\ \A k \in 1 .. n - 1 :
                       draws[k] = [op |-> "line", x1 |-> call.points[k][1],
                                   y1 |-> call.points[k][2], x2 |-> call.points[k + 1][1],
                                   y2 |-> call.points[k + 1][2],
                                   color |-> Rgba(call.color), blend |-> "Blend"]

C9_Witness ==
    /\ call.op = "lines"
    /\ Len(call.points) = 3
    /\ Len(draws) = 2
    /\ draws[1].op = "line" /\ draws[2].op = "line"

---------------------------------------------------------------------------
(* The cached geometry and sync_path *)

PositionSample == { <<-1, -1>>, <<0, 7>>, <<30, 40>> }
SizeSample == { <<1, 2>>, <<64, 48>> }
TitleSample == { "a", "b" }

\* where the window system puts a window that was built without a position
SystemPlacement == <<10, 20>>

\* the native window built by new_flags: positioned only if x >= 0 || y >= 0
BuiltWindow(x, y, w, h, title) ==
    [present |-> TRUE,
     position |-> IF x >= 0 \/ y >= 0 THEN <<x, y>> ELSE SystemPlacement,
     size |-> <<w, h>>,
     title |-> title]

SyncPath(wn, nat) ==
    IF nat.present
    THEN LET w1 == [wn EXCEPT !.x = nat.position[1]]
             w2 == [w1 EXCEPT !.x = nat.position[2]]
             w3 == [w2 EXCEPT !.w = nat.size[1]]
             w4 == [w3 EXCEPT !.h = nat.size[2]]
         IN [w4 EXCEPT !.t = nat.title]
    ELSE wn

ApplySyncPath ==
    /\ win' = SyncPath(win, native)
    /\ call' = [op |-> "sync_path"]
    /\ UNCHANGED <<native, evVars, drawVars>>

\* the accessors x(), y(), width(), height(), title() read the cached fields
ApplyAccessors ==
    /\ call' = [op |-> "accessors", x |-> win.x, y |-> win.y, width |-> win.w,
                height |-> win.h, title |-> win.t]
    /\ UNCHANGED <<geomVars, evVars, drawVars>>

\* the user or the window system moves, resizes or retitles the native window
NativeChange ==
    /\ \E p \in PositionSample \ { <<-1, -1>> }, sz \in SizeSample, tt \in TitleSample :
          /\ native' = [present |-> TRUE, position |-> p, size |-> sz, title |-> tt]
          /\ native' # native
    /\ call' = [op |-> "native"]
    /\ UNCHANGED <<win, evVars, drawVars>>

InitSync ==
    /\ \E p \in PositionSample, sz \in SizeSample, tt \in TitleSample, a \in BOOLEAN :
          /\ win = NewWindow(p[1], p[2], sz[1], sz[2], tt, a)
          /\ native = BuiltWindow(p[1], p[2], sz[1], sz[2], tt)
    /\ pump = <<>>
    /\ produced = <<>>
    /\ InitIter
    /\ mouse = MouseState(0, 0, FALSE, FALSE, FALSE)
    /\ mods = {}
    /\ inner = [blend |-> "None", color |-> <<0, 0, 0, 0>>]
    /\ font = FontTable(16, 255)
    /\ draws = <<>>
    /\ call = [op |-> "new"]

NextSync == ApplySyncPath \/ ApplyAccessors \/ NativeChange

SpecSync == InitSync /\ [][NextSync]_vars

\* C5: right after sync_path, with a native window present, the cached x, y,
\* width, height and title equal the native window's position x, position y,
\* size width, size height and title
C5_SyncPathRefreshesCache ==
    (call.op = "sync_path" /\ native.present) =>
        /\ win.x = native.position[1]
        /\ win.y = native.position[2]
        /\ win.w = native.size[1]
        /\ win.h = native.size[2]
        /\ win.t = native.title

====
